---- MODULE Spec2Model ----
(***************************************************************************)
(* wakeandwait: wake network hosts and wait until they are ready.          *)
(*                                                                         *)
(* The module models src/wakeandwait.py in two parts that share nothing   *)
(* but the shape of a destination set (OneConfig):                         *)
(*   - the phased orchestrator waitandwake with the retry loops of         *)
(*     Service.wait / Command.wait running on a ThreadPoolExecutor         *)
(*     (specifications Spec and FairSpec);                                 *)
(*   - the resolver parse_dests, one action per iteration of its loop,     *)
(*     followed by the decisions main takes on its result                  *)
(*     (specifications SpecResolve and FairSpecResolve).                   *)
(***************************************************************************)
EXTENDS Integers, Sequences, FiniteSets, TLC

\* ------------------------------------------------------------------ bounds

\* Most units (readiness checks plus commands) of a destination set handed
\* to waitandwake.
MaxUnits == 2
\* Most failed attempts (OSError / CalledProcessError) the environment deals
\* one unit; the code itself has no such limit.
MaxFails == 2
\* Threads of ThreadPoolExecutor() (min(32, cpu + 4) in CPython), scaled down
\* so that a phase can hold more units than the pool has threads.
max_workers == 1

\* Most destination tokens on the command line.
MaxTokens == 3

\* --------------------------------------------------------------- constants

DEFAULT_PORT == 22
\* 0xFFFF in is_port.
MAX_PORT == 65535

\* Python's None, for fields that hold a string otherwise.
NONE == "<None>"
\* Optional values that are not strings: None is <<>>, a value x is <<x>>.
None == <<>>
Some(x) == <<x>>

\* ---------------------------------------------------------------- variables

VARIABLES
    destinations,   \* waitandwake's argument: [wake, check, run]
    wpc,            \* position of the main thread in waitandwake
    services,       \* list of Service objects (line 383 / 395)
    commands,       \* list of Command objects (line 384 / 396)
    sfut,           \* per service: state of the future of service.wait
    cfut,           \* per command: state of the future of command.wait
    sent,           \* history: the send_magic_packet calls, [macs, failed]
    senv,           \* history, per service: what the probes did so far
    cenv,           \* history, per command: what the probes did so far
    dests,          \* options.destinations: the tokens of the command line
    opt_save,       \* options.save: None or a name
    opt_default,    \* options.default: None or a name
    config,         \* all_settings: the alias table main works with
    settings_file,  \* the content of the user's config.toml
    pst,            \* the locals of parse_dests
    mpc             \* position of main

runvars == <<destinations, wpc, services, commands, sfut, cfut, sent, senv, cenv>>
resvars == <<dests, opt_save, opt_default, config, settings_file, pst, mpc>>
orchvars == <<wpc, services, commands, sfut, cfut, sent, senv, cenv>>

\* ------------------------------------------------------- Service / Command

\* Service.__init__ (tries = 0; ok, answer, error are the class defaults).
Service(spec) ==
    [host |-> spec[1], port |-> spec[2], ok |-> FALSE, answer |-> NONE,
     error |-> NONE, tries |-> 0]

\* Command.__init__: a Service("", 0) plus the split command line.
Command(spec) ==
    [host |-> "", port |-> 0, ok |-> FALSE, answer |-> NONE,
     error |-> NONE, tries |-> 0, command |-> spec]

update_status_keeps_error(self, ok, msg, error) ==
    [self EXCEPT !.ok = ok, !.answer = msg,
                 !.error = IF error = NONE THEN @ ELSE error]

\* Service.update_status(ok, msg=None, error=None): all three fields are
\* overwritten on every call.
update_status(self, ok, msg, error) ==
    [self EXCEPT !.ok = ok, !.answer = msg, !.error = error]

\* What one connection attempt / one child process can do.  "raise" is an
\* exception that is neither OSError nor CalledProcessError (UnicodeError
\* from a host name with an empty or overlong label, IndexError from an
\* empty command line, UnicodeDecodeError from non-UTF-8 output).
Payloads == {"", "banner"}
OkOutcomes == {[kind |-> "ok", payload |-> p] : p \in Payloads}
OSErr == [kind |-> "OSError", payload |-> NONE]
CalledErr == [kind |-> "CalledProcessError", payload |-> NONE]
Raise == [kind |-> "raise", payload |-> NONE]

\* Service.check1: tries is incremented before the connection is opened.
Service_check1(self, outcome) ==
    LET s1 == [self EXCEPT !.tries = @ + 1]
    IN  CASE outcome.kind = "ok" -> update_status(s1, TRUE, outcome.payload, NONE)
          [] outcome.kind = "OSError" -> update_status(s1, FALSE, NONE, "OSError")
          [] OTHER -> s1

\* Command.check1: answer is assigned stdout, then update_status.
Command_check1(self, outcome) ==
    LET s1 == [self EXCEPT !.tries = @ + 1]
    IN  CASE outcome.kind = "ok" ->
               update_status([s1 EXCEPT !.answer = outcome.payload], TRUE,
                             outcome.payload, NONE)
          [] outcome.kind \in {"OSError", "CalledProcessError"} ->
               update_status(s1, FALSE, NONE, outcome.kind)
          [] OTHER -> s1

wait_turn_keeps_polling(after, outcome) ==
    IF outcome.kind = "raise" THEN "raised" ELSE "sleeping"

\* Service.wait, one turn of `while not self.check1(): sleep(1)`: the state
\* of the future after the attempt.  A raised exception is logged and raised
\* again, which finishes the future with that exception.
wait_turn(after, outcome) ==
    IF outcome.kind = "raise" THEN "raised"
    ELSE IF after.ok THEN "returned" ELSE "sleeping"

\* ------------------------------------------------------ concurrent.futures

FINISHED == {"returned", "raised"}

\* Threads of the executor that hold a work item.
busy(sf, cf) ==
    Cardinality({i \in DOMAIN sf : sf[i] \in {"running", "sleeping"}})
    + Cardinality({i \in DOMAIN cf : cf[i] \in {"running", "sleeping"}})

thread_free_never_again(sf, cf) ==
    Cardinality({i \in DOMAIN sf : sf[i] \notin {"none", "queued"}})
    + Cardinality({i \in DOMAIN cf : cf[i] \notin {"none", "queued"}}) < max_workers

\* ThreadPoolExecutor: a queued work item starts when a thread is free.
thread_free(sf, cf) == busy(sf, cf) < max_workers

\* The work queue is first in, first out.
head_of_queue(fut, i) == \A j \in DOMAIN fut : j < i => fut[j] # "queued"

\* concurrent.futures.wait(fs) with the default return_when=ALL_COMPLETED and
\* no timeout: blocks until every future is finished, then returns
\* (done, not_done).  A future that finished by raising is in done.
all_completed(fut) == \A i \in DOMAIN fut : fut[i] \in FINISHED
wait_raised_is_failed(fut) ==
    LET failed == {i \in DOMAIN fut : fut[i] = "raised"}
    IN  [done |-> DOMAIN fut \ failed, not_done |-> failed]
wait(fut) ==
    LET done == {i \in DOMAIN fut : fut[i] \in FINISHED}
    IN  [done |-> done, not_done |-> DOMAIN fut \ done]

\* executor.submit for every unit of the list.
submit_all(units) == [i \in DOMAIN units |-> "queued"]

\* ------------------------------------------------------------------- inputs

Hosts == [i \in 1..MaxUnits |-> <<"host", i>>]
CommandLines == [i \in 1..MaxUnits |-> <<"command", i>>]
FirstN(seq, n) == [i \in 1..n |-> seq[i]]

RunDests ==
    {[wake |-> w,
      check |-> [i \in 1..n |-> <<Hosts[i], DEFAULT_PORT>>],
      run |-> FirstN(CommandLines, m)] :
        w \in {<<>>, <<"M2", "M1">>},
        n \in 0..MaxUnits, m \in 0..MaxUnits}

\* What the environment holds for one unit: `down` units (a host that never
\* comes up, a command that never exits with 0) fail at every attempt.
NoHistory == [fails |-> 0, payload |-> NONE]
Histories == {[down |-> d] @@ NoHistory : d \in BOOLEAN}

RunInit ==
    /\ destinations \in RunDests
    /\ Len(destinations.check) + Len(destinations.run) <= MaxUnits
    /\ wpc = "start"
    /\ services = <<>>
    /\ commands = <<>>
    /\ sfut = <<>>
    /\ cfut = <<>>
    /\ sent = <<>>
    /\ senv = <<>>
    /\ cenv = <<>>
    /\ dests = <<>>
    /\ opt_save = None
    /\ opt_default = None
    /\ config = <<>>
    /\ settings_file = <<>>
    /\ pst = <<>>
    /\ mpc = "waitandwake"

\* ------------------------------------------------------------- waitandwake

\* Lines 371-397: the Service and Command objects are built before anything
\* is sent.
Construct ==
    /\ wpc = "start"
    /\ services' = [i \in DOMAIN destinations.check |-> Service(destinations.check[i])]
    /\ commands' = [i \in DOMAIN destinations.run |-> Command(destinations.run[i])]
    /\ sfut' = [i \in DOMAIN destinations.check |-> "none"]
    /\ cfut' = [i \in DOMAIN destinations.run |-> "none"]
    /\ senv' \in [DOMAIN destinations.check -> Histories]
    /\ cenv' \in [DOMAIN destinations.run -> Histories]
    /\ wpc' = "wake"
    /\ UNCHANGED <<resvars, destinations, sent>>

WakeSentOneByOne ==
    /\ wpc = "wake"
    /\ destinations.wake # <<>>
    /\ sent' = sent \o [k \in DOMAIN destinations.wake |->
                          [macs |-> <<destinations.wake[k]>>, failed |-> FALSE]]
    /\ wpc' = "wait"
    /\ UNCHANGED <<resvars, destinations, services, commands, sfut, cfut, senv, cenv>>

\* Lines 400-408: one send_magic_packet call with all the addresses.
WakeSent ==
    /\ wpc = "wake"
    /\ destinations.wake # <<>>
    /\ sent' = Append(sent, [macs |-> destinations.wake, failed |-> FALSE])
    /\ wpc' = "wait"
    /\ UNCHANGED <<resvars, destinations, services, commands, sfut, cfut, senv, cenv>>

\* Line 401 raising: nothing catches it (the finally clause stops the live
\* display), the interpreter ends with a traceback and exit status 1.
wake_swallowed_pc == "wait"
wake_failed_pc == "raised"
WakeFails ==
    /\ wpc = "wake"
    /\ destinations.wake # <<>>
    /\ sent' = Append(sent, [macs |-> destinations.wake, failed |-> TRUE])
    /\ wpc' = wake_failed_pc
    /\ UNCHANGED <<resvars, destinations, services, commands, sfut, cfut, senv, cenv>>

\* Lines 409-413.
WakeNothing ==
    /\ wpc = "wake"
    /\ destinations.wake = <<>>
    /\ wpc' = "wait"
    /\ UNCHANGED <<resvars, destinations, services, commands, sfut, cfut, sent, senv, cenv>>

\* Lines 424-426.
SubmitServices ==
    /\ wpc = "wait"
    /\ services # <<>>
    /\ sfut' = submit_all(services)
    /\ wpc' = "wait_join"
    /\ UNCHANGED <<resvars, destinations, services, commands, cfut, sent, senv, cenv>>

\* Lines 433-434.
NoServices ==
    /\ wpc = "wait"
    /\ services = <<>>
    /\ wpc' = "run"
    /\ UNCHANGED <<resvars, destinations, services, commands, sfut, cfut, sent, senv, cenv>>

\* Lines 427-432: done, failed = wait(futures); if failed: sys.exit(1).
after_wait(failed, exit_pc, next_pc) == IF failed # {} THEN exit_pc ELSE next_pc
JoinServices ==
    /\ wpc = "wait_join"
    /\ all_completed(sfut)
    /\ wpc' = after_wait(wait(sfut).not_done, "exit1", "run")
    /\ UNCHANGED <<resvars, destinations, services, commands, sfut, cfut, sent, senv, cenv>>

\* Lines 437-439.
SubmitCommands ==
    /\ wpc = "run"
    /\ commands # <<>>
    /\ cfut' = submit_all(commands)
    /\ wpc' = "run_join"
    /\ UNCHANGED <<resvars, destinations, services, commands, sfut, sent, senv, cenv>>

\* Line 437 false, then lines 447-451.
NoCommands ==
    /\ wpc = "run"
    /\ commands = <<>>
    /\ wpc' = "returned"
    /\ UNCHANGED <<resvars, destinations, services, commands, sfut, cfut, sent, senv, cenv>>

\* Lines 440-451.
JoinCommands ==
    /\ wpc = "run_join"
    /\ all_completed(cfut)
    /\ wpc' = after_wait(wait(cfut).not_done, "exit2", "returned")
    /\ UNCHANGED <<resvars, destinations, services, commands, sfut, cfut, sent, senv, cenv>>

\* main after waitandwake returned (lines 503-505).  options.notify is read
\* here and nowhere else.  Without it main is over.
NoNotify ==
    /\ wpc = "returned"
    /\ wpc' = "exit0"
    /\ UNCHANGED <<resvars, destinations, services, commands, sfut, cfut, sent, senv, cenv>>

\* notify(services or destinations) showed the notification (lines 454-465).
Notified ==
    /\ wpc = "returned"
    /\ wpc' = "notified"
    /\ UNCHANGED <<resvars, destinations, services, commands, sfut, cfut, sent, senv, cenv>>

\* notify raises (desktop_notify cannot be imported, no notification
\* service on the bus): main has no handler, the interpreter ends with a
\* traceback and exit status 1.
notify_failed_pc == "notify_raised"
NotifyFails ==
    /\ wpc = "returned"
    /\ wpc' = notify_failed_pc
    /\ UNCHANGED <<resvars, destinations, services, commands, sfut, cfut, sent, senv, cenv>>

MainStep ==
    \/ Construct
    \/ WakeSent
    \/ WakeFails
    \/ WakeNothing
    \/ SubmitServices
    \/ NoServices
    \/ JoinServices
    \/ SubmitCommands
    \/ NoCommands
    \/ JoinCommands
    \/ NoNotify
    \/ Notified
    \/ NotifyFails

\* ------------------------------------------------------------------ workers

\* The outcomes the environment may deal a unit that failed `fails` times.
ServiceOutcomes(fails) ==
    OkOutcomes \cup {Raise} \cup (IF fails < MaxFails THEN {OSErr} ELSE {})
CommandOutcomes(fails) ==
    OkOutcomes \cup {Raise} \cup (IF fails < MaxFails THEN {OSErr, CalledErr} ELSE {})

\* A unit that is down fails at every attempt, without end.  Its counters
\* (tries, fails) are followed up to MaxFails failures only: past that an
\* attempt leaves the record as it is, which keeps the endless retry loop
\* of Service.wait a loop of finitely many states.
outcomes_of(h, all) == IF h.down THEN {OSErr} ELSE all
stops_counting(h) == h.down /\ h.fails = MaxFails

record_outcome(h, outcome) ==
    CASE outcome.kind = "ok" -> [h EXCEPT !.payload = outcome.payload]
      [] outcome.kind = "raise" -> h
      [] OTHER -> [h EXCEPT !.fails = @ + 1]

\* A pool thread takes service i's work item off the queue.
ServiceStart(i) ==
    /\ sfut[i] = "queued"
    /\ thread_free(sfut, cfut)
    /\ head_of_queue(sfut, i)
    /\ sfut' = [sfut EXCEPT ![i] = "running"]
    /\ UNCHANGED <<resvars, destinations, wpc, services, commands, cfut, sent, senv, cenv>>

\* One call of service.check1 inside Service.wait (lines 89-120).
ServiceAttempt(i) ==
    /\ sfut[i] = "running"
    /\ \E outcome \in outcomes_of(senv[i], ServiceOutcomes(senv[i].fails)) :
         LET after == IF stops_counting(senv[i]) THEN services[i]
                      ELSE Service_check1(services[i], outcome)
         IN  /\ services' = [services EXCEPT ![i] = after]
             /\ sfut' = [sfut EXCEPT ![i] = wait_turn(after, outcome)]
             /\ senv' = IF stops_counting(senv[i]) THEN senv
                        ELSE [senv EXCEPT ![i] = record_outcome(@, outcome)]
    /\ UNCHANGED <<resvars, destinations, wpc, commands, cfut, sent, cenv>>

\* sleep(1) is over (line 119).
ServiceRetry(i) ==
    /\ sfut[i] = "sleeping"
    /\ sfut' = [sfut EXCEPT ![i] = "running"]
    /\ UNCHANGED <<resvars, destinations, wpc, services, commands, cfut, sent, senv, cenv>>

CommandStart(i) ==
    /\ cfut[i] = "queued"
    /\ thread_free(sfut, cfut)
    /\ head_of_queue(cfut, i)
    /\ cfut' = [cfut EXCEPT ![i] = "running"]
    /\ UNCHANGED <<resvars, destinations, wpc, services, commands, sfut, sent, senv, cenv>>

\* One call of command.check1 inside the inherited wait (lines 148-182).
CommandAttempt(i) ==
    /\ cfut[i] = "running"
    /\ \E outcome \in outcomes_of(cenv[i], CommandOutcomes(cenv[i].fails)) :
         LET after == IF stops_counting(cenv[i]) THEN commands[i]
                      ELSE Command_check1(commands[i], outcome)
         IN  /\ commands' = [commands EXCEPT ![i] = after]
             /\ cfut' = [cfut EXCEPT ![i] = wait_turn(after, outcome)]
             /\ cenv' = IF stops_counting(cenv[i]) THEN cenv
                        ELSE [cenv EXCEPT ![i] = record_outcome(@, outcome)]
    /\ UNCHANGED <<resvars, destinations, wpc, services, sfut, sent, senv>>

CommandRetry(i) ==
    /\ cfut[i] = "sleeping"
    /\ cfut' = [cfut EXCEPT ![i] = "running"]
    /\ UNCHANGED <<resvars, destinations, wpc, services, commands, sfut, sent, senv, cenv>>

ServiceStep(i) == ServiceStart(i) \/ ServiceAttempt(i) \/ ServiceRetry(i)
CommandStep(i) == CommandStart(i) \/ CommandAttempt(i) \/ CommandRetry(i)

WorkerStep ==
    \/ \E i \in DOMAIN sfut : ServiceStart(i)
    \/ \E i \in DOMAIN sfut : ServiceAttempt(i)
    \/ \E i \in DOMAIN sfut : ServiceRetry(i)
    \/ \E i \in DOMAIN cfut : CommandStart(i)
    \/ \E i \in DOMAIN cfut : CommandAttempt(i)
    \/ \E i \in DOMAIN cfut : CommandRetry(i)

\* How the process ends once waitandwake is left: sys.exit(1) (line 430),
\* sys.exit(2) (line 443), an uncaught exception (status 1), or a normal
\* return, after which main ends with or without a notification.
exit_status(pc) ==
    CASE pc = "returned" -> 0
      [] pc = "exit0" -> 0
      [] pc = "notified" -> 0
      [] pc = "notify_raised" -> 1
      [] pc = "exit1" -> 1
      [] pc = "exit2" -> 2
      [] pc = "raised" -> 1
      [] OTHER -> -1

RunNext == MainStep \/ WorkerStep

vars == <<runvars, resvars>>

Init == RunInit
Next == RunNext
Spec == Init /\ [][Next]_vars

\* The main thread and every pool thread are operating-system threads: each
\* keeps running while it has something to do.
FairSpec ==
    /\ Init
    /\ [][Next]_vars
    /\ WF_vars(MainStep)
    /\ \A i \in 1..MaxUnits : WF_vars(i \in DOMAIN sfut /\ ServiceStep(i))
    /\ \A i \in 1..MaxUnits : WF_vars(i \in DOMAIN cfut /\ CommandStep(i))

\* ------------------------------------------------------------------ tokens

\* A string is the sequence of its characters.
Digits == {"0", "1", "2", "3", "4", "5", "6", "7", "8", "9"}
HexDigits ==
    Digits \cup {"a", "b", "c", "d", "e", "f", "A", "B", "C", "D", "E", "F"}

DigitVal(c) ==
    CASE c = "0" -> 0 [] c = "1" -> 1 [] c = "2" -> 2 [] c = "3" -> 3
      [] c = "4" -> 4 [] c = "5" -> 5 [] c = "6" -> 6 [] c = "7" -> 7
      [] c = "8" -> 8 [] c = "9" -> 9

\* str.isdigit: not empty, digits only.
isdigit(arg) == Len(arg) > 0 /\ \A i \in DOMAIN arg : arg[i] \in Digits

\* int(arg) of a digit string.
RECURSIVE int(_)
int(arg) ==
    IF arg = <<>> THEN 0
    ELSE 10 * int(SubSeq(arg, 1, Len(arg) - 1)) + DigitVal(arg[Len(arg)])

\* is_port: the port number, or None.
is_port(arg) ==
    IF isdigit(arg) /\ 0 < int(arg) /\ int(arg) <= MAX_PORT
    THEN Some(int(arg)) ELSE None

\* re.match of ([0-9a-fA-F]{2}[:-]?){5}[0-9a-fA-F]{2}: group `group` of six
\* starts at position pos; a match of a prefix of arg is a match.
RECURSIVE mac_groups(_, _, _)
mac_groups(arg, pos, group) ==
    /\ pos + 1 <= Len(arg)
    /\ arg[pos] \in HexDigits
    /\ arg[pos + 1] \in HexDigits
    /\ \/ group = 6
       \/ mac_groups(arg,
                     IF pos + 2 <= Len(arg) /\ arg[pos + 2] \in {":", "-"}
                     THEN pos + 3 ELSE pos + 2,
                     group + 1)

is_mac(arg) == mac_groups(arg, 1, 1)

is_command_suffix(arg) == Len(arg) > 0 /\ arg[Len(arg)] = "!"

\* arg.startswith("!")
is_command(arg) == Len(arg) > 0 /\ arg[1] = "!"

\* ------------------------------------------------------------- parse_dests

OneConfig(wake, check, run) == [wake |-> wake, check |-> check, run |-> run]

\* The values of the alias table as tomlkit loads them: a table (Mapping), a
\* string, or an array (a list, which cannot be hashed).
DestValue(d) == [kind |-> "dest", name |-> <<>>, dest |-> d]
StrValue(name) == [kind |-> "str", name |-> name, dest |-> OneConfig(<<>>, <<>>, <<>>)]
ListValue == [kind |-> "list", name |-> <<>>, dest |-> OneConfig(<<>>, <<>>, <<>>)]

reversed(seq) == [i \in 1..Len(seq) |-> seq[Len(seq) + 1 - i]]

\* Lines 259-264.
parse_start(ds) ==
    [args |-> reversed(ds), macs |-> <<>>, services |-> <<>>, commands |-> <<>>,
     host |-> None, old_host |-> None, port |-> None, errors |-> <<>>,
     raised |-> FALSE]

\* The host branch, lines 289-293.
host_token(st, arg) ==
    LET shifted == [st EXCEPT !.old_host = st.host, !.host = Some(arg)]
    IN  IF shifted.port # None
        THEN [shifted EXCEPT !.services = Append(@, <<arg, shifted.port[1]>>)]
        ELSE IF shifted.old_host # None
             THEN [shifted EXCEPT
                     !.services = Append(@, <<shifted.old_host[1], DEFAULT_PORT>>)]
             ELSE shifted

\* The port branch, lines 282-285.
port_token(st, arg) ==
    LET st1 == [st EXCEPT !.port = Some(int(arg))]
    IN  IF st1.host # None
        THEN [st1 EXCEPT !.services = Append(@, <<st1.host[1], st1.port[1]>>)]
        ELSE st1

alias_token_wake_first(st, arg, cfg) ==
    LET value == cfg[arg]
    IN  IF value.kind = "dest"
        THEN [st EXCEPT !.macs = value.dest.wake \o @,
                        !.services = @ \o value.dest.check]
        ELSE IF value.kind = "list"
        THEN [st EXCEPT !.raised = TRUE]
        ELSE IF value.name \in DOMAIN cfg
             THEN [st EXCEPT !.args = Append(@, value.name)]
             ELSE [st EXCEPT !.errors = Append(@, arg)]

\* The alias branch, lines 267-279.  `value in config` hashes value: for a
\* list it raises TypeError, which nothing catches.
alias_token(st, arg, cfg) ==
    LET value == cfg[arg]
    IN  IF value.kind = "dest"
        THEN [st EXCEPT !.macs = @ \o value.dest.wake,
                        !.services = @ \o value.dest.check]
        ELSE IF value.kind = "list"
        THEN [st EXCEPT !.raised = TRUE]
        ELSE IF value.name \in DOMAIN cfg
             THEN [st EXCEPT !.args = Append(@, value.name)]
             ELSE [st EXCEPT !.errors = Append(@, arg)]

\* One iteration of `while args:` (lines 265-293).
parse_step(st, cfg) ==
    LET arg == st.args[Len(st.args)]
        popped == [st EXCEPT !.args = SubSeq(@, 1, Len(@) - 1)]
    IN  IF arg \in DOMAIN cfg THEN alias_token(popped, arg, cfg)
        ELSE IF is_mac(arg) THEN [popped EXCEPT !.macs = Append(@, arg)]
        ELSE IF is_port(arg) # None THEN port_token(popped, arg)
        ELSE IF is_command(arg) THEN [popped EXCEPT !.commands = Append(@, Tail(arg))]
        ELSE host_token(popped, arg)

\* Line 294.
parse_result(st) == OneConfig(st.macs, st.services, st.commands)

\* parse_dests as a whole (it does not return on a cyclic alias table; the
\* loop is left early when an iteration raised).
RECURSIVE parse_loop(_, _)
parse_loop(st, cfg) ==
    IF st.args = <<>> \/ st.raised THEN st ELSE parse_loop(parse_step(st, cfg), cfg)
parse_dests(ds, cfg) == parse_result(parse_loop(parse_start(ds), cfg))

\* -------------------------------------------------------------------- main

\* bool(x) of a dict: it has a key.
truthy(d) == DOMAIN d # {}

dict_set(d, k, v) == [x \in DOMAIN d \cup {k} |-> IF x = k THEN v ELSE d[x]]
dict_update(a, b) ==
    [x \in DOMAIN a \cup DOMAIN b |-> IF x \in DOMAIN b THEN b[x] ELSE a[x]]

T_default == <<"d", "e", "f", "a", "u", "l", "t">>

\* save_settings (lines 234-255): the settings written to the file and
\* returned.  dest, name and default are None or Some(..).
save_settings(file, dest, name, default) ==
    LET s1 == IF default # None
              THEN dict_set(file, T_default, StrValue(default[1])) ELSE file
        has_dest == dest # None /\ truthy(dest[1])
        name1 == IF has_dest /\ default # None /\ name = None THEN default ELSE name
    IN  IF has_dest /\ name1 # None
        THEN dict_set(s1, name1[1], DestValue(dest[1])) ELSE s1

\* Lines 475-476.
after_save(file, dest, save) ==
    IF save # None THEN save_settings(file, Some(dest), save, None) ELSE file

\* Lines 477-491, given the settings all_settings holds by then.
after_default(file, all, dest, save, default) ==
    IF default = None THEN file
    ELSE IF default[1] \in DOMAIN all THEN save_settings(file, None, None, default)
    ELSE IF save # None THEN file
    ELSE IF truthy(dest) THEN save_settings(file, Some(dest), default, default)
    ELSE file

\* The tokens a str hands to `reversed(dests)`: its characters.
chars(str) == [i \in 1..Len(str) |-> <<str[i]>>]

\* Lines 492-501: the destinations main goes on with, or None for
\* sys.exit(2).
fallback(dest, all, save, default) ==
    IF (save = None \/ default # None) /\ ~truthy(dest)
    THEN LET d == parse_dests(chars(T_default), all)
         IN  IF truthy(d) THEN Some(d) ELSE None
    ELSE Some(dest)

\* ----------------------------------------------------------- resolver inputs

T_h1 == <<"h", "1">>
T_h2 == <<"h", "2">>
T_h3 == <<"h", "3">>
T_22 == <<"2", "2">>
T_80 == <<"8", "0">>
T_mac == <<"A", "A", ":", "B", "B", ":", "C", "C", ":", "D", "D", ":", "E", "E", ":", "F", "F">>
T_mac2 == <<"0", "0", "1", "1", "2", "2", "3", "3", "4", "4", "5", "5">>
T_cmd == <<"!", "u", "p">>
T_a == <<"a">>
T_b == <<"b">>
T_m == <<"m">>
T_o == <<"o">>
T_zz == <<"z", "z">>

Tokens == {T_h1, T_h2, T_22, T_80, T_mac, T_cmd, T_a, T_m}

SeqsUpTo(S, n) == UNION {[1..k -> S] : k \in 0..n}

Office == OneConfig(<<T_mac2>>, <<<<T_h3, 80>>>>, <<<<"l", "s">>>>)

\* The alias tables: none; a chain a -> b -> table with a default entry; a
\* cyclic chain a -> b -> a (m names nothing in both); m = [..], an array.
Configs ==
    {<<>>,
     (T_m :> ListValue),
     (T_a :> StrValue(T_b)) @@ (T_b :> DestValue(Office))
        @@ (T_m :> StrValue(T_zz)) @@ (T_default :> StrValue(T_b)),
     (T_a :> StrValue(T_b)) @@ (T_b :> StrValue(T_a)) @@ (T_m :> StrValue(T_zz))}

ResInit ==
    /\ dests \in SeqsUpTo(Tokens, MaxTokens)
    /\ opt_save \in {None, Some(T_o)}
    /\ opt_default \in {None, Some(T_b)}
    /\ config \in Configs
    /\ settings_file = config
    /\ pst = parse_start(dests)
    /\ mpc = "parse_dests"
    /\ destinations = OneConfig(<<>>, <<>>, <<>>)
    /\ wpc = "start"
    /\ services = <<>>
    /\ commands = <<>>
    /\ sfut = <<>>
    /\ cfut = <<>>
    /\ sent = <<>>
    /\ senv = <<>>
    /\ cenv = <<>>

\* One iteration of the loop of parse_dests, called at line 473.
ParseStep ==
    /\ mpc = "parse_dests"
    /\ pst.args # <<>>
    /\ ~pst.raised
    /\ pst' = parse_step(pst, config)
    /\ UNCHANGED <<dests, opt_save, opt_default, config, settings_file, mpc,
                   destinations, orchvars>>

\* The loop is over: line 294, back in main.
ParseReturn ==
    /\ mpc = "parse_dests"
    /\ pst.args = <<>>
    /\ ~pst.raised
    /\ destinations' = parse_result(pst)
    /\ mpc' = "options"
    /\ UNCHANGED <<dests, opt_save, opt_default, config, settings_file, pst, orchvars>>

\* The exception of an iteration leaves parse_dests and main (line 473):
\* the interpreter prints the traceback and the process ends with status 1.
ParseRaises ==
    /\ mpc = "parse_dests"
    /\ pst.raised
    /\ mpc' = "raised"
    /\ UNCHANGED <<dests, opt_save, opt_default, config, settings_file, pst,
                   destinations, orchvars>>

\* Lines 475-491: --save and --default.
MainOptions ==
    /\ mpc = "options"
    /\ LET file1 == after_save(settings_file, destinations, opt_save)
           all1 == IF opt_save # None THEN dict_update(config, file1) ELSE config
           file2 == after_default(file1, all1, destinations, opt_save, opt_default)
           all2 == IF file2 # file1 THEN dict_update(all1, file2) ELSE all1
       IN  /\ settings_file' = file2
           /\ config' = all2
    /\ mpc' = "fallback"
    /\ UNCHANGED <<dests, opt_save, opt_default, pst, destinations, orchvars>>

\* Lines 492-503: the default configuration, then waitandwake(destinations).
MainFallback ==
    /\ mpc = "fallback"
    /\ LET d == fallback(destinations, config, opt_save, opt_default)
       IN  IF d = None
           THEN mpc' = "exit2" /\ UNCHANGED destinations
           ELSE mpc' = "waitandwake" /\ destinations' = d[1]
    /\ UNCHANGED <<dests, opt_save, opt_default, config, settings_file, pst, orchvars>>

ResNext == ParseStep \/ ParseReturn \/ ParseRaises \/ MainOptions \/ MainFallback

SpecResolve == ResInit /\ [][ResNext]_vars

\* main is sequential code: it keeps running while it has a next step.
FairSpecResolve == ResInit /\ [][ResNext]_vars /\ WF_vars(ResNext)

\* ------------------------------------------------------------------ claims

AllServicesOk == \A i \in DOMAIN services : services[i].ok
AllCommandsOk == \A j \in DOMAIN commands : commands[j].ok
SomeUnitRaised ==
    \/ \E i \in DOMAIN sfut : sfut[i] = "raised"
    \/ \E j \in DOMAIN cfut : cfut[j] = "raised"
WakeFailed == \E k \in DOMAIN sent : sent[k].failed
SomeUnitDown ==
    \/ \E i \in DOMAIN senv : senv[i].down
    \/ \E j \in DOMAIN cenv : cenv[j].down

\* C1: no command is submitted or attempted before every readiness check has
\* succeeded = true, however the workers of the wait phase ended.
C1_ServicesBeforeCommands ==
    (\E j \in DOMAIN cfut : cfut[j] # "none" \/ commands[j].tries > 0)
        => AllServicesOk

\* C2: waitandwake returns normally (exit status 0) only when every readiness
\* check and every command has succeeded = true.
C2_ReturnOnlyOnFullSuccess ==
    wpc = "returned" => AllServicesOk /\ AllCommandsOk

\* C3: when the broadcast does not fail and every probe succeeds after at
\* most MaxFails failed attempts (none raises, no unit is down), waitandwake
\* eventually returns normally, i.e. the run ends with exit status 0.
C3_Terminates ==
    <>(WakeFailed \/ SomeUnitRaised \/ SomeUnitDown
       \/ (wpc = "returned" /\ exit_status(wpc) = 0))

C3_Witness ==
    /\ wpc = "returned"
    /\ ~WakeFailed /\ ~SomeUnitRaised /\ ~SomeUnitDown
    /\ Len(sent) = 1
    /\ Len(services) > max_workers
    /\ \A i \in DOMAIN senv : senv[i].fails = MaxFails

\* C4: a unit that failed with a connection or command error is attempted
\* again (it sleeps, and the retry is always possible, whatever its attempt
\* count) and is not finished; and while some readiness check has not
\* succeeded the wait phase is not over, no command is started and
\* waitandwake has not been left.
C4_RetryUnboundedAndBarrier ==
    /\ \A i \in DOMAIN sfut : sfut[i] = "sleeping" => ENABLED ServiceRetry(i)
    /\ \A j \in DOMAIN cfut : cfut[j] = "sleeping" => ENABLED CommandRetry(j)
    /\ (wpc \in {"wait_join", "run", "run_join", "returned", "exit1", "exit2"}
        /\ ~AllServicesOk)
         => /\ wpc = "wait_join"
            /\ \A j \in DOMAIN cfut : cfut[j] = "none"

\* A token parse_dests takes for a host name.
IsHostToken(tok, cfg) ==
    tok \notin DOMAIN cfg /\ ~is_mac(tok) /\ is_port(tok) = None /\ ~is_command(tok)

\* C5: a last host token that no port token follows, and for which no port
\* is pending (it is not the first host token, or no port token precedes
\* it), gets no readiness check (stated for token sequences without alias
\* names in which that host name occurs once); in particular resolving
\* ["h1", "22", "h2"] with an empty alias table yields exactly [("h1", 22)].
C5_DanglingHostDropped ==
    mpc = "options" =>
        /\ (dests = <<T_h1, T_22, T_h2>> /\ config = <<>>)
             => destinations.check = <<<<T_h1, 22>>>>
        /\ \A k \in DOMAIN dests :
             (/\ \A n \in DOMAIN dests : dests[n] \notin DOMAIN config
              /\ IsHostToken(dests[k], config)
              /\ \A n \in DOMAIN dests : n # k => dests[n] # dests[k]
              /\ \A n \in DOMAIN dests :
                   n > k => ~IsHostToken(dests[n], config) /\ is_port(dests[n]) = None
              /\ \/ \E n \in DOMAIN dests : n < k /\ IsHostToken(dests[n], config)
                 \/ \A n \in DOMAIN dests : n < k => is_port(dests[n]) = None)
                => \A c \in DOMAIN destinations.check :
                       destinations.check[c][1] # dests[k]

\* C6: parse_dests returns for every token sequence and every alias table,
\* cyclic ones included.
C6_ResolutionTerminates == <>(mpc # "parse_dests")

\* C7: with no token on the command line and no default entry in the
\* configuration, main ends with sys.exit(2) and does not call waitandwake.
C7_NothingResolvableExits2 ==
    (mpc \in {"waitandwake", "exit2"} /\ dests = <<>> /\ T_default \notin DOMAIN config)
        => mpc = "exit2"

\* C8: with no token on the command line and a default entry that names a
\* saved alias, waitandwake is called with the wake targets and readiness
\* checks that resolving the single token "default" yields.
C8_DefaultAliasUsed ==
    (/\ mpc = "waitandwake"
     /\ dests = <<>>
     /\ T_default \in DOMAIN config
     /\ config[T_default].kind = "str"
     /\ config[T_default].name \in DOMAIN config
     /\ config[config[T_default].name].kind = "dest")
        => LET d == parse_dests(<<T_default>>, config)
           IN  destinations.wake = d.wake /\ destinations.check = d.check

\* C9: a unit whose probe failed k times and then succeeded has, when its
\* retry loop returns, attempts = k + 1, succeeded = true, lastOutput = the
\* payload of the last attempt and no lastError; attempts counts every
\* attempt exactly once.
C9_RecordAfterSuccess ==
    /\ \A i \in DOMAIN services :
         /\ services[i].tries = senv[i].fails + (IF sfut[i] \in FINISHED THEN 1 ELSE 0)
         /\ sfut[i] = "returned" =>
              /\ services[i].tries = senv[i].fails + 1
              /\ services[i].ok
              /\ services[i].answer = senv[i].payload
              /\ services[i].error = NONE
    /\ \A j \in DOMAIN commands :
         /\ commands[j].tries = cenv[j].fails + (IF cfut[j] \in FINISHED THEN 1 ELSE 0)
         /\ cfut[j] = "returned" =>
              /\ commands[j].tries = cenv[j].fails + 1
              /\ commands[j].ok
              /\ commands[j].answer = cenv[j].payload
              /\ commands[j].error = NONE

C9_Witness ==
    /\ \E i \in DOMAIN services :
         /\ sfut[i] = "returned"
         /\ senv[i].fails = 2
         /\ services[i].tries = 3
         /\ services[i].answer = "banner"
    /\ \E j \in DOMAIN commands :
         /\ cfut[j] = "returned"
         /\ cenv[j].fails = 1
         /\ commands[j].answer = ""

\* C10: when send_magic_packet fails, the call is not repeated, no readiness
\* probe and no command is ever submitted or attempted, and the process is
\* over with a non-zero exit status.
C10_WakeFailureIsFatal ==
    WakeFailed =>
        /\ Len(sent) = 1
        /\ \A i \in DOMAIN services : services[i].tries = 0 /\ sfut[i] = "none"
        /\ \A j \in DOMAIN commands : commands[j].tries = 0 /\ cfut[j] = "none"
        /\ exit_status(wpc) > 0
        /\ ~ENABLED Next

C10_Witness ==
    /\ WakeFailed
    /\ Len(services) >= 1
    /\ Len(commands) >= 1

\* C11: when every phase succeeded and the notify option is set, the process
\* ends with status 0 whether the notification succeeds or fails.
C11_NotifyFailureKeepsExit0 ==
    (wpc \in {"notified", "notify_raised"} /\ AllServicesOk /\ AllCommandsOk)
        => exit_status(wpc) = 0

\* C14: once the wait phase has started, every readiness check is attempted
\* at least once, whatever becomes of the other checks and however many
\* checks there are for the threads of the pool.
C14_EveryCheckAttempted ==
    (wpc = "wait_join") ~> (\A i \in DOMAIN services : services[i].tries >= 1)

\* C15: waitandwake never leaves through sys.exit(1) of the wait phase nor
\* through sys.exit(2) of the run phase, whatever the probes do.
C15_FailureBranchesDead == wpc \notin {"exit1", "exit2"}

C15_Witness ==
    /\ wpc = "returned"
    /\ \E i \in DOMAIN sfut : sfut[i] = "raised"
    /\ \E j \in DOMAIN cfut : cfut[j] = "raised"

C20_RecordFrozen ==
    [][/\ \A i \in DOMAIN services :
            services'[i] # services[i] => ServiceAttempt(i) /\ ~services[i].ok
       /\ \A j \in DOMAIN commands :
            commands'[j] # commands[j] => CommandAttempt(j) /\ ~commands[j].ok]_vars

C20_Witness ==
    /\ \E i \in DOMAIN services : services[i].ok /\ services[i].tries > 1
    /\ \E j \in DOMAIN commands : commands[j].tries > 1 /\ cfut[j] = "sleeping"

\* The alias chain that starts at tok ends within fuel string entries.
RECURSIVE chain_ends(_, _, _)
chain_ends(tok, cfg, fuel) ==
    \/ cfg[tok].kind # "str"
    \/ cfg[tok].name \notin DOMAIN cfg
    \/ fuel > 0 /\ chain_ends(cfg[tok].name, cfg, fuel - 1)

Acyclic(cfg) == \A a \in DOMAIN cfg : chain_ends(a, cfg, Cardinality(DOMAIN cfg))

\* The wake list of the table at the end of the alias chain of tok.
RECURSIVE chain_wake(_, _)
chain_wake(tok, cfg) ==
    IF cfg[tok].kind = "dest" THEN cfg[tok].dest.wake
    ELSE IF cfg[tok].kind = "str" /\ cfg[tok].name \in DOMAIN cfg
         THEN chain_wake(cfg[tok].name, cfg)
         ELSE <<>>

RECURSIVE ConcatWake(_, _)
ConcatWake(ds, cfg) ==
    IF ds = <<>> THEN <<>>
    ELSE (IF Head(ds) \in DOMAIN cfg THEN chain_wake(Head(ds), cfg)
          ELSE IF is_mac(Head(ds)) THEN <<Head(ds)>> ELSE <<>>)
         \o ConcatWake(Tail(ds), cfg)

\* C12: for an acyclic alias table the resolved wake targets are, in token
\* order, each hardware-address token itself and for each alias token the
\* wake list at the end of its alias chain, duplicates kept; in particular
\* a -> b -> {wake: [M]} with input [a] yields [M].
C12_WakeTargetsInOrder ==
    (mpc = "options" /\ Acyclic(config)) =>
        /\ destinations.wake = ConcatWake(dests, config)
        /\ (dests = <<T_a>> /\ T_a \in DOMAIN config)
             => destinations.wake = Office.wake

C12_Witness ==
    /\ mpc = "options"
    /\ dests = <<T_mac, T_a, T_mac>>
    /\ destinations.wake = <<T_mac, T_mac2, T_mac>>

\* The number of elements of seq that satisfy seq[k] = x, or whose second
\* component is x.
CountTokens(seq, x) == Cardinality({k \in DOMAIN seq : seq[k] = x})
CountPorts(checks, p) == Cardinality({k \in DOMAIN checks : checks[k][2] = p})

\* C13: each port token is used for at most one readiness check: for a token
\* sequence without alias names, there are no more checks on port 80 than
\* tokens "80", and ["h1", "80", "h2"] gives h2 no check on port 80.
C13_PortConsumedOnce ==
    (mpc = "options" /\ \A n \in DOMAIN dests : dests[n] \notin DOMAIN config) =>
        /\ CountPorts(destinations.check, 80) <= CountTokens(dests, T_80)
        /\ dests = <<T_h1, T_80, T_h2>>
             => <<T_h2, 80>> \notin {destinations.check[k] : k \in DOMAIN destinations.check}

\* An alias entry that is neither a table nor the name of another alias.
Malformed(tok, cfg) ==
    /\ tok \in DOMAIN cfg
    /\ \/ cfg[tok].kind = "list"
       \/ cfg[tok].kind = "str" /\ cfg[tok].name \notin DOMAIN cfg

\* C17: a malformed alias entry is skipped without aborting the resolution:
\* parse_dests returns (it does not raise), and what it returns is what the
\* token sequence without the malformed alias tokens resolves to.
C17_MalformedAliasSkipped ==
    /\ mpc # "raised"
    /\ mpc = "options" =>
         LET Good(tok) == ~Malformed(tok, config)
         IN  destinations = parse_dests(SelectSeq(dests, Good), config)

\* A token parse_dests takes for a command: it starts with the marker and is
\* no alias name.
IsCommandToken(tok, cfg) == tok \notin DOMAIN cfg /\ Len(tok) > 0 /\ tok[1] = "!"

RECURSIVE CommandsOf(_, _)
CommandsOf(ds, cfg) ==
    IF ds = <<>> THEN <<>>
    ELSE (IF IsCommandToken(Head(ds), cfg) THEN <<Tail(Head(ds))>> ELSE <<>>)
         \o CommandsOf(Tail(ds), cfg)

\* C18: the tokens that start with "!" and are no alias names are the
\* commands, minus the marker, in token order; the wake targets and the
\* readiness checks are those of the sequence without these tokens; and the
\* iteration that takes such a token changes nothing but the commands.
C18_CommandTokenBypasses ==
    /\ [](mpc = "options" =>
            LET Other(tok) == ~IsCommandToken(tok, config)
                rest == parse_dests(SelectSeq(dests, Other), config)
            IN  /\ destinations.run = CommandsOf(dests, config)
                /\ destinations.wake = rest.wake
                /\ destinations.check = rest.check)
    /\ [][(ParseStep /\ IsCommandToken(pst.args[Len(pst.args)], config))
            => pst' = [pst EXCEPT
                         !.args = SubSeq(@, 1, Len(@) - 1),
                         !.commands = Append(@, Tail(pst.args[Len(pst.args)]))]]_vars

C18_Witness ==
    /\ mpc = "options"
    /\ dests = <<T_h1, T_cmd, T_80>>
    /\ destinations = OneConfig(<<>>, <<<<T_h1, 80>>>>, <<<<"u", "p">>>>)

\* C19: after the destinations of the command line are saved under the name
\* of --save, resolving that one name against the alias table gives the same
\* wake targets, readiness checks and commands.
C19_SaveThenResolve ==
    (mpc = "fallback" /\ opt_save # None)
        => parse_dests(<<opt_save[1]>>, config) = destinations
====
